---- MODULE Spec2Model ----
(***************************************************************************)
(* remotefs, src/fs/file.rs: the Entry data model (Directory | File), its  *)
(* accessors, the symlink-chain resolution get_realfile, the narrowing     *)
(* operations unwrap_file / unwrap_dir and the UnixPex permission codec.   *)
(*                                                                         *)
(* The library is driven by a caller that constructs one value (an Entry   *)
(* or a UnixPex / a byte) and then calls methods on it, as the unit tests  *)
(* of the file do.  get_realfile is modelled call by call: every           *)
(* invocation is a frame on `stack`, every return pops one.                *)
(***************************************************************************)
EXTENDS Integers, Sequences, FiniteSets

\* ------------------------------------------------------------------ bounds

\* Longest symlink chain constructed: the number of hops behind the entry
\* the caller holds.
MaxHops == 2

\* Longest entry name constructed.
MaxNameLen == 2

\* Longest sequence of codec conversions made on one UnixPex / byte.
MaxConv == 3

\* --------------------------------------------------------------- constants

\* Largest value of a u8: the type of `bits` and of as_byte's result.
U8Max == 255

\* ------------------------------------------------------- Option<T>, helpers

\* Option<T>: None is the empty tuple, Some(x) the one-element tuple.
None == <<>>

Some(x) == <<x>>

is_some(o) == Len(o) > 0

\* u8 arithmetic of the codec.
shl(v, k) == (v * (2 ^ k)) % (U8Max + 1)

shr(v, k) == v \div (2 ^ k)

and_0x01(v) == v % 2

add_u8(a, b) == (a + b) % (U8Max + 1)

bool_as_u8(b) == IF b THEN 1 ELSE 0

\* ----------------------------------------------------------------- UnixPex

UnixPex_new(read, write, execute) ==
    [read |-> read, write |-> write, execute |-> execute]

can_read(self) == self.read

can_write(self) == self.write

can_execute(self) == self.execute

\* as_byte with the write flag shifted as far as the read flag.
as_byte_write_shifted_2(self) ==
    add_u8(add_u8(shl(bool_as_u8(self.read), 2), shl(bool_as_u8(self.write), 2)),
           bool_as_u8(self.execute))

as_byte(self) ==
    add_u8(add_u8(shl(bool_as_u8(self.read), 2), shl(bool_as_u8(self.write), 1)),
           bool_as_u8(self.execute))

\* From<u8> without the & 0x01 on the read bit.
UnixPex_from_unmasked(bits) ==
    [read    |-> shr(bits, 2) # 0,
     write   |-> and_0x01(shr(bits, 1)) # 0,
     execute |-> and_0x01(bits) # 0]

\* From<u8> with the layout reversed: bit0=read, bit1=write, bit2=execute.
UnixPex_from_reversed(bits) ==
    [read    |-> and_0x01(bits) # 0,
     write   |-> and_0x01(shr(bits, 1)) # 0,
     execute |-> and_0x01(shr(bits, 2)) # 0]

UnixPex_from(bits) ==
    [read    |-> and_0x01(shr(bits, 2)) # 0,
     write   |-> and_0x01(shr(bits, 1)) # 0,
     execute |-> and_0x01(bits) # 0]

\* ------------------------------------------------------------------- Entry

\* A Directory value: the struct's nine fields.
Directory(name, abs_path, time, symlink, user, group, unix_pex) ==
    [name |-> name, abs_path |-> abs_path,
     last_change_time |-> time, last_access_time |-> time, creation_time |-> time,
     symlink |-> symlink, user |-> user, group |-> group, unix_pex |-> unix_pex]

\* A File value: the struct's eleven fields.
File(name, abs_path, time, size, ftype, symlink, user, group, unix_pex) ==
    [name |-> name, abs_path |-> abs_path,
     last_change_time |-> time, last_access_time |-> time, creation_time |-> time,
     size |-> size, ftype |-> ftype,
     symlink |-> symlink, user |-> user, group |-> group, unix_pex |-> unix_pex]

\* The enum Entry: a tag and the variant's payload.
Entry_Directory(dir) == [tag |-> "Directory", v |-> dir]

Entry_File(file) == [tag |-> "File", v |-> file]

get_abs_path(self) == self.v.abs_path

get_name(self) == self.v.name

\* get_size reporting, for a directory that is a symlink to a file, the
\* size of that file.
get_size_of_target(self) ==
    IF self.tag = "Directory"
    THEN IF is_some(self.v.symlink) /\ self.v.symlink[1].tag = "File"
         THEN self.v.symlink[1].v.size ELSE 4096
    ELSE self.v.size

get_size(self) ==
    IF self.tag = "Directory" THEN 4096 ELSE self.v.size

get_ftype(self) ==
    IF self.tag = "Directory" THEN None ELSE self.v.ftype

get_unix_pex(self) == self.v.unix_pex

\* is_symlink looking at the symlink field of files only.
is_symlink_files_only(self) ==
    IF self.tag = "Directory" THEN FALSE ELSE is_some(self.v.symlink)

is_symlink(self) ==
    IF self.tag = "Directory" THEN is_some(self.v.symlink) ELSE is_some(self.v.symlink)

is_dir(self) == self.tag = "Directory"

is_file(self) == self.tag = "File"

\* str::starts_with(char): the first character, when there is one.
starts_with(s, c) == Len(s) > 0 /\ s[1] = c

\* is_hidden with str::contains in place of str::starts_with.
is_hidden_contains(self) ==
    \E i \in 1..Len(get_name(self)) : get_name(self)[i] = "."

is_hidden(self) == starts_with(get_name(self), ".")

\* A Clone written by hand that leaves the owner out of the copy.
clone_without_user(self) == [self EXCEPT !.v.user = None]

\* #[derive(Clone)]: a deep copy, the same value.
clone(self) == self

\* The outcome of a call: a returned value or a panic.
Ok(x) == [kind |-> "return", val |-> x]

Panic(msg) == [kind |-> "panic", msg |-> msg]

\* unwrap_file giving a directory's common fields as a File of the
\* directory's size and no type, in place of the panic.
unwrap_file_or_default(self) ==
    IF self.tag = "File" THEN Ok(self.v)
    ELSE Ok(File(self.v.name, self.v.abs_path, self.v.creation_time, 4096, None,
                 self.v.symlink, self.v.user, self.v.group, self.v.unix_pex))

unwrap_file(self) ==
    IF self.tag = "File" THEN Ok(self.v) ELSE Panic("unwrap_file: not a file")

unwrap_dir(self) ==
    IF self.tag = "Directory" THEN Ok(self.v) ELSE Panic("unwrap_dir: not a directory")

\* ------------------------------------------------- the values constructed

\* Names: every string over Alphabet of at most MaxNameLen characters, as
\* a tuple of characters.
Alphabet == {".", "a"}

Names == UNION {[1..n -> Alphabet] : n \in 0..MaxNameLen}

\* The paths, times, sizes, types, owners and permissions the tests
\* construct entries with.  The entries behind a symlink field all carry
\* one name (the tests' chain does: "projects") and, as files, the size and
\* type of the tests' chain.
TargetName == <<"a">>

TargetInfos == {<<8, None>>}

Paths == {"/projects", "/develop/projects", "/home/cvisintin/projects"}

t_now == "t_now"

FileInfos == {<<8, None>>, <<8192, Some("txt")>>}

PosixDir == <<Some(0), Some(0),
              Some(<<UnixPex_from(7), UnixPex_from(5), UnixPex_from(5)>>)>>

PosixFile == <<Some(0), Some(0),
               Some(<<UnixPex_from(6), UnixPex_from(4), UnixPex_from(4)>>)>>

\* One entry, as a struct literal of the tests builds it.
NewDirectory(name, abs_path, symlink) ==
    Entry_Directory(Directory(name, abs_path, t_now, symlink,
                              PosixDir[1], PosixDir[2], PosixDir[3]))

NewFile(name, abs_path, info, symlink) ==
    Entry_File(File(name, abs_path, t_now, info[1], info[2], symlink,
                    PosixFile[1], PosixFile[2], PosixFile[3]))

NewEntries(names, infos, symlinks) ==
    {NewDirectory(n, p, s) : n \in names, p \in Paths, s \in symlinks}
    \cup {NewFile(n, p, i, s) :
            n \in names, p \in Paths, i \in infos, s \in symlinks}

\* The symlink fields of at most k hops: None, or Some(Box::new(target))
\* with the target's own symlink field of at most k - 1 hops.  An entry
\* owns its target, so every chain is finite.
RECURSIVE Symlinks(_)
Symlinks(k) ==
    IF k = 0 THEN {None}
    ELSE {None} \cup {Some(e) : e \in NewEntries({TargetName}, TargetInfos, Symlinks(k - 1))}

Entries == NewEntries(Names, FileInfos, Symlinks(MaxHops))

UnixPexes == {UnixPex_new(r, w, x) : r \in BOOLEAN, w \in BOOLEAN, x \in BOOLEAN}

Bytes == 0..U8Max

\* A value of the codec's conversions, with its type.
U8(v) == [t |-> "u8", v |-> v]

Pex(p) == [t |-> "UnixPex", v |-> p]

\* ------------------------------------------------------------------- state

VARIABLES
    entry,   \* Option<Entry>: the entry the caller constructed
    call,    \* the method the caller called on it, "none" before the call
    pc,      \* "start", "get_realfile" (in a frame), "return" (unwinding), "done"
    stack,   \* the receivers (&self) of the get_realfile frames, innermost last
    ret,     \* Option<outcome>: what the call returned, or its panic
    conv,    \* the codec's values: each converted from the one before
    real     \* Option<Entry>: the result of get_realfile the caller resolves again

vars == <<entry, call, pc, stack, ret, conv, real>>

Last(s) == s[Len(s)]

Init ==
    /\ call = "none"
    /\ pc = "start"
    /\ stack = <<>>
    /\ ret = None
    /\ real = None
    /\ \/ /\ entry \in {Some(e) : e \in Entries}
          /\ conv = <<>>
       \/ /\ entry = None
          /\ conv \in {<<Pex(p)>> : p \in UnixPexes}
       \/ /\ entry = None
          /\ conv \in {<<U8(b)>> : b \in Bytes}

\* ------------------------------------------------------------ get_realfile

\* The caller calls entry.get_realfile(): the first frame.
Call_get_realfile ==
    /\ pc = "start"
    /\ is_some(entry)
    /\ call' = "get_realfile"
    /\ pc' = "get_realfile"
    /\ stack' = <<entry[1]>>
    /\ UNCHANGED <<entry, ret, conv, real>>

\* The caller calls get_realfile() on the entry get_realfile returned.
Call_get_realfile_again ==
    /\ pc = "done"
    /\ call = "get_realfile"
    /\ ret[1].kind = "return"
    /\ real' = Some(ret[1].val)
    /\ call' = "get_realfile_again"
    /\ pc' = "get_realfile"
    /\ stack' = <<ret[1].val>>
    /\ ret' = None
    /\ UNCHANGED <<entry, conv>>

\* get_realfile stopping one hop early: at the last entry that is a symlink.
get_realfile_stops_at_last_link ==
    /\ pc = "get_realfile"
    /\ LET self == stack[Len(stack)] IN
         IF is_some(self.v.symlink) /\ is_some(self.v.symlink[1].v.symlink)
         THEN /\ stack' = Append(stack, self.v.symlink[1])
              /\ UNCHANGED <<pc, ret>>
         ELSE /\ ret' = Some(Ok(clone(self)))
              /\ pc' = "return"
              /\ UNCHANGED stack
    /\ UNCHANGED <<entry, call, conv, real>>

\* get_realfile following one hop only: with a symlink, the target's clone.
get_realfile_one_hop ==
    /\ pc = "get_realfile"
    /\ LET self == stack[Len(stack)] IN
         /\ ret' = Some(Ok(IF is_some(self.v.symlink)
                            THEN clone(self.v.symlink[1]) ELSE clone(self)))
         /\ pc' = "return"
    /\ UNCHANGED <<entry, call, stack, conv, real>>

\* One invocation's body: with a symlink, call get_realfile on the target;
\* with none, return a clone of self.
get_realfile ==
    /\ pc = "get_realfile"
    /\ LET self == Last(stack) IN
         IF is_some(self.v.symlink)
         THEN /\ stack' = Append(stack, self.v.symlink[1])
              /\ UNCHANGED <<pc, ret>>
         ELSE /\ ret' = Some(Ok(clone(self)))
              /\ pc' = "return"
              /\ UNCHANGED stack
    /\ UNCHANGED <<entry, call, conv, real>>

\* A frame returns what it holds (its own clone, or its callee's result).
get_realfile_return ==
    /\ pc = "return"
    /\ stack' = SubSeq(stack, 1, Len(stack) - 1)
    /\ pc' = IF Len(stack) = 1 THEN "done" ELSE "return"
    /\ UNCHANGED <<entry, call, ret, conv, real>>

\* ------------------------------------------------------ accessors, unwrap

\* The accessors, called one after the other on the entry as the tests do.
accessors(self) ==
    [get_abs_path |-> get_abs_path(self),
     get_name     |-> get_name(self),
     get_size     |-> get_size(self),
     get_ftype    |-> get_ftype(self),
     get_unix_pex |-> get_unix_pex(self),
     is_symlink   |-> is_symlink(self),
     is_dir       |-> is_dir(self),
     is_file      |-> is_file(self),
     is_hidden    |-> is_hidden(self)]

Call_accessors ==
    /\ pc = "start"
    /\ is_some(entry)
    /\ call' = "accessors"
    /\ ret' = Some(Ok(accessors(entry[1])))
    /\ pc' = "done"
    /\ UNCHANGED <<entry, stack, conv, real>>

Call_unwrap_file ==
    /\ pc = "start"
    /\ is_some(entry)
    /\ call' = "unwrap_file"
    /\ ret' = Some(unwrap_file(entry[1]))
    /\ pc' = "done"
    /\ UNCHANGED <<entry, stack, conv, real>>

Call_unwrap_dir ==
    /\ pc = "start"
    /\ is_some(entry)
    /\ call' = "unwrap_dir"
    /\ ret' = Some(unwrap_dir(entry[1]))
    /\ pc' = "done"
    /\ UNCHANGED <<entry, stack, conv, real>>

\* ------------------------------------------------------------------- codec

Call_as_byte ==
    /\ conv # <<>>
    /\ Len(conv) < MaxConv
    /\ Last(conv).t = "UnixPex"
    /\ conv' = Append(conv, U8(as_byte(Last(conv).v)))
    /\ UNCHANGED <<entry, call, pc, stack, ret, real>>

Call_UnixPex_from ==
    /\ conv # <<>>
    /\ Len(conv) < MaxConv
    /\ Last(conv).t = "u8"
    /\ conv' = Append(conv, Pex(UnixPex_from(Last(conv).v)))
    /\ UNCHANGED <<entry, call, pc, stack, ret, real>>

Next ==
    \/ Call_get_realfile
    \/ Call_get_realfile_again
    \/ get_realfile
    \/ get_realfile_return
    \/ Call_accessors
    \/ Call_unwrap_file
    \/ Call_unwrap_dir
    \/ Call_as_byte
    \/ Call_UnixPex_from

Spec == Init /\ [][Next]_vars

\* A call once made runs on: the caller's thread executes it.
FairSpec == Spec /\ WF_vars(get_realfile) /\ WF_vars(get_realfile_return)

\* ------------------------------------------------------------------ chains

\* The chain e0 -> e1 -> ... -> en an entry heads: e0 is the entry itself,
\* each next one the entry in the symlink field of the one before, and the
\* last one carries no symlink.
RECURSIVE ChainOf(_)
ChainOf(e) ==
    IF e.v.symlink = None THEN <<e>> ELSE <<e>> \o ChainOf(e.v.symlink[1])

\* The paths of the entries of a chain.
PathsOf(chain) == {get_abs_path(chain[i]) : i \in 1..Len(chain)}

\* get_realfile was called on the entry and has returned to the caller.
RealfileDone == call = "get_realfile" /\ pc = "done"

\* ---------------------------------------------------------------------- C1

\* The result of a returned get_realfile on the head e0 of a chain of
\* n >= 1 hops is en: the same variant, the same value in every field, and
\* so en's path, which is the path of no ei that differs from en's.
C1_ResultIsChainEnd ==
    (RealfileDone /\ is_symlink(entry[1])) =>
        LET chain == ChainOf(entry[1])
            n     == Len(chain) - 1
            en    == chain[n + 1]
        IN  /\ n >= 1
            /\ ret = Some(Ok(en))
            /\ ret[1].val.tag = en.tag
            /\ get_abs_path(ret[1].val) = get_abs_path(en)
            /\ \A i \in 1..n :
                  get_abs_path(chain[i]) # get_abs_path(en)
                      => get_abs_path(ret[1].val) # get_abs_path(chain[i])

C2_RealfileOfNonSymlink ==
    (RealfileDone /\ ~is_symlink(entry[1])) =>
        /\ ret = Some(Ok(entry[1]))
        /\ ret[1].val.tag = entry[1].tag
        /\ \A f \in DOMAIN entry[1].v : ret[1].val.v[f] = entry[1].v[f]
        /\ get_abs_path(ret[1].val) = get_abs_path(entry[1])

\* A Directory without a symlink, resolved to itself.
C2_Witness ==
    /\ RealfileDone
    /\ entry[1].tag = "Directory"
    /\ entry[1].v.symlink = None
    /\ ret = Some(Ok(entry[1]))

\* ------------------------------------------------------------ the codec

\* The i-th value of conv is of type t and was converted twice since.
RoundTrip(i, t) == i + 2 <= Len(conv) /\ conv[i].t = t

\* bool as a number, as the claims' arithmetic reads it.
B(b) == IF b THEN 1 ELSE 0

\* ---------------------------------------------------------------------- C4

\* C4: for every UnixPex x (all 8 combinations of read, write, execute),
\* UnixPex::from(x.as_byte()) == x, two values being equal iff all three
\* flags match.
C4_FromAsByteIsIdentity ==
    \A i \in 1..Len(conv) :
        RoundTrip(i, "UnixPex") =>
            /\ conv[i + 1].t = "u8"
            /\ conv[i + 2].t = "UnixPex"
            /\ can_read(conv[i + 2].v) = can_read(conv[i].v)
            /\ can_write(conv[i + 2].v) = can_write(conv[i].v)
            /\ can_execute(conv[i + 2].v) = can_execute(conv[i].v)
            /\ conv[i + 2].v = conv[i].v

\* UnixPex::new(false, true, true), encoded and decoded again.
C4_Witness ==
    /\ Len(conv) = 3
    /\ conv[1].t = "UnixPex"
    /\ conv[1].v = UnixPex_new(FALSE, TRUE, TRUE)
    /\ conv[2].t = "u8"
    /\ conv[3] = conv[1]

\* ---------------------------------------------------------------------- C5

\* C5: for every byte v in 0..=255, UnixPex::from(v).as_byte() == v & 0b111:
\* the result is in [0,7]; the bits of v above position 2 are ignored by
\* the decoding and never produced by the encoding.
C5_AsByteFromIsLow3Bits ==
    \A i \in 1..Len(conv) :
        RoundTrip(i, "u8") =>
            /\ conv[i + 1].t = "UnixPex"
            /\ conv[i + 2].t = "u8"
            /\ conv[i + 2].v = conv[i].v % 8
            /\ conv[i + 2].v \in 0..7
            /\ conv[i + 1].v = UnixPex_from(conv[i].v % 8)

\* The byte 0xFB (high bits set, low bits 011), decoded and encoded to 3.
C5_Witness ==
    /\ Len(conv) = 3
    /\ conv[1].t = "u8"
    /\ conv[1].v = 251
    /\ conv[2].t = "UnixPex"
    /\ conv[3] = U8(3)

\* ---------------------------------------------------------------------- C6

\* C6: the layout is bit2=read, bit1=write, bit0=execute in both directions:
\* for every byte v = 8h + 4r + 2w + x (r, w, x single bits),
\* UnixPex::from(v) has can_read() == r, can_write() == w and
\* can_execute() == x; and for all booleans r, w, x,
\* UnixPex::new(r, w, x).as_byte() == 4*r + 2*w + x, the POSIX octal digit.
C6_BitLayout ==
    \A i \in 1..Len(conv) :
        i + 1 <= Len(conv) =>
            IF conv[i].t = "u8"
            THEN \A h \in 0..(U8Max \div 8), r \in BOOLEAN, w \in BOOLEAN, x \in BOOLEAN :
                    conv[i].v = 8 * h + 4 * B(r) + 2 * B(w) + B(x) =>
                        /\ can_read(conv[i + 1].v) = r
                        /\ can_write(conv[i + 1].v) = w
                        /\ can_execute(conv[i + 1].v) = x
            ELSE \A r \in BOOLEAN, w \in BOOLEAN, x \in BOOLEAN :
                    conv[i].v = UnixPex_new(r, w, x) =>
                        conv[i + 1].v = 4 * B(r) + 2 * B(w) + B(x)

\* The byte 4 decoded to read-only, and read-only encoded to 4.
C6_Witness ==
    /\ Len(conv) = 3
    /\ conv[1].t = "u8"
    /\ conv[1].v = 4
    /\ conv[2] = Pex(UnixPex_new(TRUE, FALSE, FALSE))
    /\ conv[3] = U8(4)

\* --------------------------------------------------- accessors and unwrap

\* The accessors were called on the entry; Seen is what they returned.
AccessorsDone == call = "accessors" /\ pc = "done"

Seen == ret[1].val

\* ---------------------------------------------------------------------- C7

\* C7: for every Directory, whatever its other fields (a symlink field
\* pointing to a File included), get_size() == 4096 and get_ftype() == None;
\* for every File, get_size() and get_ftype() return exactly the size and
\* ftype stored at construction.
C7_SizeAndFtype ==
    AccessorsDone =>
        IF entry[1].tag = "Directory"
        THEN Seen.get_size = 4096 /\ Seen.get_ftype = None
        ELSE Seen.get_size = entry[1].v.size /\ Seen.get_ftype = entry[1].v.ftype

\* A Directory whose symlink field holds a File of another size.
C7_Witness ==
    /\ AccessorsDone
    /\ entry[1].tag = "Directory"
    /\ is_some(entry[1].v.symlink)
    /\ entry[1].v.symlink[1].tag = "File"
    /\ entry[1].v.symlink[1].v.size # 4096
    /\ Seen.get_size = 4096
    /\ Seen.get_ftype = None

\* ---------------------------------------------------------------------- C8

\* C8: extracting the wrong variant panics, never yields a default value:
\* unwrap_file on a Directory and unwrap_dir on a File panic, unwrap_file on
\* a File and unwrap_dir on a Directory return exactly the stored payload;
\* unwrap_file succeeds iff is_file(), unwrap_dir iff is_dir().
C8_UnwrapWrongVariantPanics ==
    /\ (call = "unwrap_file" /\ pc = "done") =>
          /\ (ret[1].kind = "return") = is_file(entry[1])
          /\ (ret[1].kind = "panic") = (entry[1].tag = "Directory")
          /\ entry[1].tag = "File" => ret[1] = Ok(entry[1].v)
    /\ (call = "unwrap_dir" /\ pc = "done") =>
          /\ (ret[1].kind = "return") = is_dir(entry[1])
          /\ (ret[1].kind = "panic") = (entry[1].tag = "File")
          /\ entry[1].tag = "Directory" => ret[1] = Ok(entry[1].v)

\* unwrap_file called on a Directory: a panic.
C8_Witness ==
    /\ call = "unwrap_file"
    /\ pc = "done"
    /\ entry[1].tag = "Directory"
    /\ ret[1].kind = "panic"

\* ---------------------------------------------------------------------- C9

\* C9: is_symlink(e) is true iff e's own symlink field is populated, whether
\* e is a Directory or a File and whatever the variant or the symlink field
\* of the entry it points to.
C9_IsSymlinkIffFieldPopulated ==
    AccessorsDone => (Seen.is_symlink = (entry[1].v.symlink # None))

\* A Directory that is a symlink to a File that is no symlink.
C9_Witness ==
    /\ AccessorsDone
    /\ entry[1].tag = "Directory"
    /\ entry[1].v.symlink # None
    /\ entry[1].v.symlink[1].tag = "File"
    /\ entry[1].v.symlink[1].v.symlink = None
    /\ Seen.is_symlink

\* --------------------------------------------------------------------- C10

\* C10: is_hidden(e) is true iff e.get_name() starts with '.', whatever the
\* variant, the absolute path and the other fields: an empty name is not
\* hidden, nor is a name with '.' only after its first character.
C10_IsHiddenIffNameStartsWithDot ==
    AccessorsDone =>
        /\ Seen.is_hidden = (Seen.get_name # <<>> /\ Head(Seen.get_name) = ".")
        /\ Seen.get_name = entry[1].v.name
        /\ Seen.get_name = <<>> => ~Seen.is_hidden

\* A File named "a.": a '.' after the first character, not hidden.
C10_Witness ==
    /\ AccessorsDone
    /\ entry[1].tag = "File"
    /\ entry[1].v.name = <<"a", ".">>
    /\ ~Seen.is_hidden

\* --------------------------------------------------------------------- C11

\* get_realfile was called on the result of get_realfile and has returned.
RealfileAgainDone == call = "get_realfile_again" /\ pc = "done"

\* C11: get_realfile is idempotent on finite chains: for every entry e
\* heading a finite acyclic symlink chain, get_realfile(e) is no symlink,
\* and get_realfile(get_realfile(e)) equals get_realfile(e) in variant and in
\* every field.
C11_RealfileIdempotent ==
    /\ RealfileDone => ~is_symlink(ret[1].val)
    /\ is_some(real) => ~is_symlink(real[1])
    /\ RealfileAgainDone =>
          /\ ret[1].kind = "return"
          /\ ret[1].val.tag = real[1].tag
          /\ \A f \in DOMAIN real[1].v : ret[1].val.v[f] = real[1].v[f]
          /\ ret = Some(Ok(real[1]))

\* The head of a two-hop chain resolved, and its result resolved again to
\* the same entry.
C11_Witness ==
    /\ RealfileAgainDone
    /\ Len(ChainOf(entry[1])) = 3
    /\ real = Some(Last(ChainOf(entry[1])))
    /\ real[1] # entry[1]
    /\ ret = Some(Ok(real[1]))

====
